---- MODULE Spec2Model ----
(***************************************************************************)
(* Flow-graph analyses of crewai/flow/utils.py as state machines:          *)
(*   calculate_node_levels        (SpecLevels)                             *)
(*   build_ancestor_dict          (SpecAnc)                                *)
(*   build_parent_children_dict,                                           *)
(*   get_child_index              (SpecPC)                                 *)
(*   get_possible_return_constants (SpecRet)                               *)
(* A flow is the triple of tables the functions read: _methods (with the   *)
(* start-method attribute), _listeners, _routers/_router_paths.  Python    *)
(* dicts iterate in insertion order, so the method and listener tables are *)
(* sequences of names.                                                     *)
(***************************************************************************)
EXTENDS Integers, Sequences, FiniteSets, TLC

VARIABLES
  flow,                   \* the graph: the tables of the Flow object
  pc,                     \* position in the function being run
  levels,                 \* calculate_node_levels: levels
  queue,                  \* calculate_node_levels: queue
  visited,                \* calculate_node_levels / build_ancestor_dict: visited
  pending_and_listeners,  \* calculate_node_levels: pending_and_listeners
  dequeued,               \* history: <<name, level>> of every queue.pop(0), in order
  ancestors,              \* build_ancestor_dict: ancestors
  stack,                  \* build_ancestor_dict: the call stack of dfs_ancestors
  outer,                  \* position of the outermost loop (over flow._methods, over the nodes of code_ast)
  parent_children,        \* build_parent_children_dict: parent_children
  answers,                \* history: every index get_child_index returned, per (parent, child)
  code_ast,               \* get_possible_return_constants: the statements of the parsed source
  dict_definitions,       \* get_possible_return_constants: dict_definitions
  return_values,          \* get_possible_return_constants: return_values
  result                  \* the value the function under analysis returned

vars == <<flow, pc, levels, queue, visited, pending_and_listeners, dequeued,
          ancestors, stack, outer, parent_children, answers,
          code_ast, dict_definitions, return_values, result>>

(***************************************************************************)
(* Bounds of the model.                                                    *)
(***************************************************************************)
NumSteps == 3     \* number of methods of a flow
MaxTrig == 2      \* largest trigger list of a listener
MaxPaths == 1     \* longest path list of a router
MaxIters == 6     \* cap on iterations of the while loop the model follows
MaxLookups == 2   \* number of get_child_index calls followed after a build
MaxStmts == 3     \* assignments and returns in a router's source
MaxDictVals == 2  \* values of a dictionary literal

StepNames == <<"a", "b", "c", "d", "e">>
Steps == {StepNames[i] : i \in 1..NumSteps}
\* A path label that is no method name, and one that is also a method name.
PathLabels == {"p", StepNames[NumSteps]}
TrigNames == Steps \cup {"p"}

None == "None"
Empty == <<>>   \* the empty dict (a function with empty domain) or empty list

RECURSIVE SeqSet(_)
SeqSet(s) == IF s = <<>> THEN {} ELSE {Head(s)} \cup SeqSet(Tail(s))

Put(f, k, v) == [x \in DOMAIN f \cup {k} |-> IF x = k THEN v ELSE f[x]]

Max(S) == CHOOSE x \in S : \A y \in S : y <= x
Min(S) == CHOOSE x \in S : \A y \in S : x <= y

(***************************************************************************)
(* The graphs.  methods: the keys of flow._methods in iteration order;     *)
(* start: the methods with __is_start_method__; order: the keys of         *)
(* flow._listeners in iteration order; listeners: name -> (condition_type, *)
(* trigger_methods); routers; router_paths.                                *)
(***************************************************************************)
TrigSets == {T \in SUBSET TrigNames : Cardinality(T) \in 1..MaxTrig}
\* A listener of one trigger is registered as ("OR", [name]); an AND-listener
\* has at least two triggers.
ListenerChoices ==
  {[cond |-> "NONE", trig |-> {}]}
    \cup {[cond |-> "OR", trig |-> T] : T \in TrigSets}
    \cup {[cond |-> "AND", trig |-> T] : T \in {U \in TrigSets : Cardinality(U) >= 2}}

PathChoices ==
  {<<>>} \cup UNION {{s \in [1..n -> PathLabels] : \A i, j \in 1..n : i # j => s[i] # s[j]}
                       : n \in 1..MaxPaths}

MethodOrder == [i \in 1..NumSteps |-> StepNames[i]]

RECURSIVE Filter(_, _)
Filter(s, S) == IF s = <<>> THEN <<>>
                ELSE IF Head(s) \in S THEN <<Head(s)>> \o Filter(Tail(s), S)
                ELSE Filter(Tail(s), S)

RECURSIVE Reverse(_)
Reverse(s) == IF s = <<>> THEN <<>> ELSE Append(Reverse(Tail(s)), Head(s))

\* L: Steps -> ListenerChoices; R: routers -> path list; rev: listener table order
MkFlow(S, L, R, rev) ==
  LET ls == {m \in Steps : L[m].cond # "NONE"}
      asc == Filter(MethodOrder, ls)
  IN [methods |-> MethodOrder,
      start |-> S,
      order |-> IF rev THEN Reverse(asc) ELSE asc,
      listeners |-> [m \in ls |-> L[m]],
      routers |-> DOMAIN R,
      router_paths |-> R]

RouterTables == {Empty} \cup {[x \in {r} |-> ps] : r \in Steps, ps \in PathChoices}

(***************************************************************************)
(* calculate_node_levels                                                   *)
(***************************************************************************)
\* The loop's local state, threaded through the inner for loops.
LoopState == [levels |-> levels, queue |-> queue, visited |-> visited,
              pending |-> pending_and_listeners]

\* Propose with the comparison reversed (< for >).
ProposeLess(st, listener_name, current_level) ==
  IF listener_name \notin DOMAIN st.levels \/ st.levels[listener_name] < current_level + 1
  THEN [st EXCEPT !.levels = Put(@, listener_name, current_level + 1),
                  !.queue = IF listener_name \notin st.visited
                            THEN Append(@, listener_name) ELSE @]
  ELSE st

\* Propose without the test: every proposal is taken.
ProposeAlways(st, listener_name, current_level) ==
  [st EXCEPT !.levels = Put(@, listener_name, current_level + 1),
             !.queue = IF listener_name \notin st.visited
                       THEN Append(@, listener_name) ELSE @]

\* if listener_name not in levels or levels[listener_name] > current_level + 1:
\*     levels[listener_name] = current_level + 1
\*     if listener_name not in visited: queue.append(listener_name)
Propose(st, listener_name, current_level) ==
  IF listener_name \notin DOMAIN st.levels \/ st.levels[listener_name] > current_level + 1
  THEN [st EXCEPT !.levels = Put(@, listener_name, current_level + 1),
                  !.queue = IF listener_name \notin st.visited
                            THEN Append(@, listener_name) ELSE @]
  ELSE st

\* One iteration of `for listener_name, (condition_type, trigger_methods) in
\* flow._listeners.items()` for the dequeued step current.
ListenerBody(st, current, current_level, listener_name) ==
  LET condition_type == flow.listeners[listener_name].cond
      trigger_methods == flow.listeners[listener_name].trig
  IN IF condition_type = "OR"
     THEN IF current \in trigger_methods
          THEN Propose(st, listener_name, current_level)
          ELSE st
     ELSE IF condition_type = "AND"
     THEN LET p1 == IF listener_name \notin DOMAIN st.pending
                    THEN Put(st.pending, listener_name, {}) ELSE st.pending
              p2 == IF current \in trigger_methods
                    THEN Put(p1, listener_name, p1[listener_name] \cup {current})
                    ELSE p1
              st2 == [st EXCEPT !.pending = p2]
          IN IF trigger_methods = p2[listener_name]
             THEN Propose(st2, listener_name, current_level)
             ELSE st2
     ELSE st

RECURSIVE ListenerLoop(_, _, _, _)
ListenerLoop(st, current, current_level, i) ==
  IF i > Len(flow.order) THEN st
  ELSE ListenerLoop(ListenerBody(st, current, current_level, flow.order[i]),
                    current, current_level, i + 1)

\* flow._router_paths.get(router_method_name, [])
RouterPaths(router_method_name) ==
  IF router_method_name \in DOMAIN flow.router_paths
  THEN flow.router_paths[router_method_name] ELSE <<>>

\* The body of the router branch's inner loop, for one path and one listener.
RouterBody(st, path, current_level, listener_name) ==
  IF path \in flow.listeners[listener_name].trig
  THEN Propose(st, listener_name, current_level)
  ELSE st

RECURSIVE RouterListenerLoop(_, _, _, _)
RouterListenerLoop(st, path, current_level, i) ==
  IF i > Len(flow.order) THEN st
  ELSE RouterListenerLoop(RouterBody(st, path, current_level, flow.order[i]),
                          path, current_level, i + 1)

RECURSIVE RouterPathLoop(_, _, _, _)
RouterPathLoop(st, paths, current_level, j) ==
  IF j > Len(paths) THEN st
  ELSE RouterPathLoop(RouterListenerLoop(st, paths[j], current_level, 1),
                      paths, current_level, j + 1)

\* Pop reading queue[0] without removing it.
PopPeek(st) == [st EXCEPT !.visited = @ \cup {Head(st.queue)}]

\* current = queue.pop(0); current_level = levels[current]; visited.add(current)
Pop(st) == [st EXCEPT !.queue = Tail(@), !.visited = @ \cup {Head(st.queue)}]

\* One iteration of `while queue:`.
WhileBody(st) ==
  LET current == Head(st.queue)
      current_level == st.levels[current]
      st1 == ListenerLoop(Pop(st), current, current_level, 1)
  IN IF current \in flow.routers
     THEN RouterPathLoop(st1, RouterPaths(current), current_level, 1)
     ELSE st1

\* for method_name, method in flow._methods.items():
\*     if hasattr(method, "__is_start_method__"): levels[..] = 0; queue.append(..)
SeedQueue == Filter(flow.methods, flow.start)

UnusedByLevels ==
  /\ ancestors = Empty /\ stack = <<>> /\ outer = 0
  /\ parent_children = Empty /\ answers = Empty
  /\ code_ast = <<>> /\ dict_definitions = Empty /\ return_values = {}

KeepOthersLevels ==
  UNCHANGED <<flow, ancestors, stack, outer, parent_children, answers,
              code_ast, dict_definitions, return_values>>

InitLevels ==
  /\ \E S \in SUBSET Steps, L \in [Steps -> ListenerChoices], R \in RouterTables,
        rev \in BOOLEAN :
       flow = MkFlow(S, L, R, rev)
  /\ pc = "start"
  /\ levels = Empty /\ queue = <<>> /\ visited = {} /\ pending_and_listeners = Empty
  /\ dequeued = <<>> /\ result = None
  /\ UnusedByLevels

SeedStarts ==
  /\ pc = "start"
  /\ levels' = [m \in SeqSet(SeedQueue) |-> 0]
  /\ queue' = SeedQueue
  /\ pc' = "while"
  /\ UNCHANGED <<visited, pending_and_listeners, dequeued, result>>
  /\ KeepOthersLevels

LoopIteration ==
  /\ pc = "while"
  /\ queue # <<>>
  /\ Len(dequeued) < MaxIters
  /\ LET st == WhileBody(LoopState)
     IN /\ levels' = st.levels
        /\ queue' = st.queue
        /\ visited' = st.visited
        /\ pending_and_listeners' = st.pending
  /\ dequeued' = Append(dequeued, <<Head(queue), levels[Head(queue)]>>)
  /\ UNCHANGED <<pc, result>>
  /\ KeepOthersLevels

ReturnLevels ==
  /\ pc = "while"
  /\ queue = <<>>
  /\ pc' = "done"
  /\ result' = levels
  /\ UNCHANGED <<levels, queue, visited, pending_and_listeners, dequeued>>
  /\ KeepOthersLevels

NextLevels == SeedStarts \/ LoopIteration \/ ReturnLevels

SpecLevels == InitLevels /\ [][NextLevels]_vars

(***************************************************************************)
(* Claims about calculate_node_levels (SpecLevels)                         *)
(***************************************************************************)
Listeners == DOMAIN flow.listeners
Cond(l) == flow.listeners[l].cond
Trig(l) == flow.listeners[l].trig
PathsOf(r) == SeqSet(RouterPaths(r))

\* A trigger name has fired once a step of that name was dequeued, or a
\* dequeued router declares it as a path.
Fired(t) == t \in visited \/ \E r \in visited \cap flow.routers : t \in PathsOf(r)

\* The level a step had when it was dequeued.
DeqLevel(t) == LET i == CHOOSE i \in 1..Len(dequeued) : dequeued[i][1] = t
               IN dequeued[i][2]
Dequeued == {dequeued[i][1] : i \in 1..Len(dequeued)}

\* The levels at which the triggers of l fired, read from the final map: a
\* step trigger's own level, a path trigger's router's level.
FiredLevels(l, lv) ==
  {lv[t] : t \in Trig(l) \cap DOMAIN lv}
    \cup {lv[r] : r \in {x \in flow.routers \cap DOMAIN lv : PathsOf(x) \cap Trig(l) # {}}}

\* C1: an AND-listener (other than a start method, which is seeded with level
\* 0) has a level only if every name of its trigger set has fired.
C1_AndNeedsAllTriggers ==
  \A l \in Listeners :
    (Cond(l) = "AND" /\ l \notin flow.start /\ l \in DOMAIN levels)
      => \A t \in Trig(l) : Fired(t)

\* C4: in the result, an AND-listener (other than a start method) whose
\* triggers all have a level has level 1 + the maximum of the levels its
\* triggers had when dequeued.
C4_AndLevelIsMaxPlusOne ==
  pc = "done" =>
    \A l \in Listeners :
      (Cond(l) = "AND" /\ l \notin flow.start /\ Trig(l) \subseteq DOMAIN result
         /\ Trig(l) \subseteq Dequeued)
        => /\ l \in DOMAIN result
           /\ result[l] = 1 + Max({DeqLevel(t) : t \in Trig(l)})

\* C5: in the result, an OR-listener that is no start method has level
\* 1 + the minimum level over its triggers that fired, and no level when none
\* fired.
C5_OrLevelIsMinPlusOne ==
  pc = "done" =>
    \A l \in Listeners :
      (Cond(l) = "OR" /\ l \notin flow.start)
        => IF FiredLevels(l, result) = {}
           THEN l \notin DOMAIN result
           ELSE l \in DOMAIN result /\ result[l] = 1 + Min(FiredLevels(l, result))

C5_Witness ==
  /\ pc = "done"
  /\ \E l \in Listeners :
       /\ Cond(l) = "OR" /\ l \notin flow.start
       /\ Cardinality(FiredLevels(l, result)) >= 2
       /\ \E r \in flow.routers \cap DOMAIN result : PathsOf(r) \cap Trig(l) # {}

\* C6: from the seeding on and in the result, every start method has level 0.
C6_StartLevelZero ==
  /\ pc # "start" => \A m \in flow.start : m \in DOMAIN levels /\ levels[m] = 0
  /\ pc = "done" => \A m \in flow.start : m \in DOMAIN result /\ result[m] = 0

\* A start method that is also a listener of a dequeued step and the target
\* of a dequeued router's path.
C6_Witness ==
  /\ pc = "done"
  /\ \E m \in flow.start \cap Listeners :
       /\ \E t \in Trig(m) \cap visited : t # m /\ result[t] >= 1
       /\ \E r \in flow.routers \cap visited : PathsOf(r) \cap Trig(m) # {}

\* C9: the while loop runs at most once per step: no step is dequeued twice,
\* nothing in the queue was dequeued before, and an iteration never fails on
\* levels[current]; so the queue drains within |methods| iterations.
C9_LoopBounded ==
  /\ Len(dequeued) <= Cardinality(SeqSet(flow.methods))
  /\ \A i, j \in 1..Len(dequeued) : i # j => dequeued[i][1] # dequeued[j][1]
  /\ \A i \in 1..Len(queue) : queue[i] \notin visited
  /\ \A i \in 1..Len(queue) : queue[i] \in DOMAIN levels
  /\ (pc = "while" /\ queue # <<>>) => Len(dequeued) < MaxIters

\* A finished run over a cycle through a router path: l listens to a path of
\* r, and r listens to l.
C9_Witness ==
  /\ pc = "done"
  /\ \E r \in flow.routers \cap Listeners \cap visited, l \in Listeners \cap visited :
       /\ r # l
       /\ PathsOf(r) \cap Trig(l) # {}
       /\ l \in Trig(r)

(***************************************************************************)
(* build_ancestor_dict / dfs_ancestors                                     *)
(* The recursion is an explicit stack of frames [node, phase, i, j]:       *)
(* phase "listeners" is the loop of lines 170-174 at listener i, phase     *)
(* "router" the loops of lines 180-185 at path j and listener i.           *)
(***************************************************************************)
\* ancestors[listener_name].add(node); ancestors[listener_name].update(ancestors[node])
AddNodeAndAncestors(anc, listener_name, node) ==
  LET added == [anc EXCEPT ![listener_name] = @ \cup {node}]
  IN [added EXCEPT ![listener_name] = @ \cup added[node]]

\* AddAncestorsOnly adding the router's own name too, as the listener branch does.
AddAncestorsAndRouter(anc, listener_name, node) ==
  [anc EXCEPT ![listener_name] = @ \cup {node} \cup anc[node]]

\* ancestors[listener_name].update(ancestors[node])
AddAncestorsOnly(anc, listener_name, node) ==
  [anc EXCEPT ![listener_name] = @ \cup anc[node]]

\* dfs_ancestors(node, ...) up to its first loop: returns at once on a visited
\* node, else marks it and starts the listener loop.
Call(stk, node) ==
  IF node \in visited THEN stk
  ELSE <<[node |-> node, phase |-> "listeners", i |-> 1, j |-> 1]>> \o stk

Marked(node) == visited \cup {node}

Top == Head(stack)

UnusedByAnc ==
  /\ levels = Empty /\ queue = <<>> /\ pending_and_listeners = Empty /\ dequeued = <<>>
  /\ parent_children = Empty /\ answers = Empty
  /\ code_ast = <<>> /\ dict_definitions = Empty /\ return_values = {}

KeepOthersAnc ==
  UNCHANGED <<flow, levels, queue, pending_and_listeners, dequeued,
              parent_children, answers, code_ast, dict_definitions, return_values>>

\* condition_type is not read by dfs_ancestors.
AncListenerChoices ==
  {[cond |-> "NONE", trig |-> {}]} \cup {[cond |-> "OR", trig |-> T] : T \in TrigSets}

InitAnc ==
  /\ \E L \in [Steps -> AncListenerChoices], R \in RouterTables, rev \in BOOLEAN :
       flow = MkFlow({}, L, R, rev)
  /\ pc = "outer"
  /\ ancestors = [node \in SeqSet(flow.methods) |-> {}]
  /\ visited = {}
  /\ stack = <<>>
  /\ outer = 1
  /\ result = None
  /\ UnusedByAnc

\* for node in flow._methods: if node not in visited: dfs_ancestors(node, ...)
OuterLoop ==
  /\ pc = "outer" /\ stack = <<>>
  /\ outer <= Len(flow.methods)
  /\ stack' = Call(stack, flow.methods[outer])
  /\ visited' = Marked(flow.methods[outer])
  /\ outer' = outer + 1
  /\ UNCHANGED <<pc, ancestors, result>>
  /\ KeepOthersAnc

\* One iteration of the loop of lines 170-174.
DfsListenerStep ==
  /\ pc = "outer" /\ stack # <<>>
  /\ Top.phase = "listeners"
  /\ Top.i <= Len(flow.order)
  /\ LET listener_name == flow.order[Top.i]
         rest == <<[Top EXCEPT !.i = @ + 1]>> \o Tail(stack)
     IN IF Top.node \in flow.listeners[listener_name].trig
        THEN /\ ancestors' = AddNodeAndAncestors(ancestors, listener_name, Top.node)
             /\ stack' = Call(rest, listener_name)
             /\ visited' = Marked(listener_name)
        ELSE /\ stack' = rest
             /\ UNCHANGED <<ancestors, visited>>
  /\ UNCHANGED <<pc, outer, result>>
  /\ KeepOthersAnc

\* The listener loop is over: `if node in flow._routers`, else return.
DfsListenersDone ==
  /\ pc = "outer" /\ stack # <<>>
  /\ Top.phase = "listeners"
  /\ Top.i > Len(flow.order)
  /\ stack' = IF Top.node \in flow.routers
              THEN <<[Top EXCEPT !.phase = "router", !.i = 1, !.j = 1]>> \o Tail(stack)
              ELSE Tail(stack)
  /\ UNCHANGED <<pc, ancestors, visited, outer, result>>
  /\ KeepOthersAnc

\* One iteration of the inner loop of lines 181-185, for path j.
DfsRouterStep ==
  /\ pc = "outer" /\ stack # <<>>
  /\ Top.phase = "router"
  /\ Top.j <= Len(RouterPaths(Top.node))
  /\ Top.i <= Len(flow.order)
  /\ LET listener_name == flow.order[Top.i]
         path == RouterPaths(Top.node)[Top.j]
         rest == <<[Top EXCEPT !.i = @ + 1]>> \o Tail(stack)
     IN IF path \in flow.listeners[listener_name].trig
        THEN /\ ancestors' = AddAncestorsOnly(ancestors, listener_name, Top.node)
             /\ stack' = Call(rest, listener_name)
             /\ visited' = Marked(listener_name)
        ELSE /\ stack' = rest
             /\ UNCHANGED <<ancestors, visited>>
  /\ UNCHANGED <<pc, outer, result>>
  /\ KeepOthersAnc

\* The inner loop is over for path j: next path.
DfsNextPath ==
  /\ pc = "outer" /\ stack # <<>>
  /\ Top.phase = "router"
  /\ Top.j <= Len(RouterPaths(Top.node))
  /\ Top.i > Len(flow.order)
  /\ stack' = <<[Top EXCEPT !.i = 1, !.j = @ + 1]>> \o Tail(stack)
  /\ UNCHANGED <<pc, ancestors, visited, outer, result>>
  /\ KeepOthersAnc

\* All paths done: dfs_ancestors returns.
DfsReturn ==
  /\ pc = "outer" /\ stack # <<>>
  /\ Top.phase = "router"
  /\ Top.j > Len(RouterPaths(Top.node))
  /\ stack' = Tail(stack)
  /\ UNCHANGED <<pc, ancestors, visited, outer, result>>
  /\ KeepOthersAnc

ReturnAncestors ==
  /\ pc = "outer" /\ stack = <<>>
  /\ outer > Len(flow.methods)
  /\ pc' = "done"
  /\ result' = ancestors
  /\ UNCHANGED <<ancestors, visited, stack, outer>>
  /\ KeepOthersAnc

NextAnc ==
  \/ OuterLoop \/ DfsListenerStep \/ DfsListenersDone
  \/ DfsRouterStep \/ DfsNextPath \/ DfsReturn \/ ReturnAncestors

SpecAnc == InitAnc /\ [][NextAnc]_vars

(***************************************************************************)
(* Claims about build_ancestor_dict (SpecAnc)                              *)
(***************************************************************************)
\* x triggers y directly: by its name, or (a router) by one of its paths.
NameEdge(x, y) == y \in Listeners /\ x \in Trig(y)
PathEdge(x, y) == y \in Listeners /\ x \in flow.routers /\ PathsOf(x) \cap Trig(y) # {}
Edge(x, y) == NameEdge(x, y) \/ PathEdge(x, y)

Nodes == SeqSet(flow.methods)

\* Pairs joined by a chain of one or more edges (Warshall over the nodes).
RECURSIVE Closure(_, _)
Closure(R, todo) ==
  IF todo = {} THEN R
  ELSE LET k == CHOOSE n \in todo : TRUE
       IN Closure(R \cup {<<x, y>> \in Nodes \X Nodes : <<x, k>> \in R /\ <<k, y>> \in R},
                  todo \ {k})
Reach == Closure({<<x, y>> \in Nodes \X Nodes : Edge(x, y)}, Nodes)
Acyclic == \A n \in Nodes : <<n, n>> \notin Reach

\* C2: on an acyclic graph the returned ancestor sets are transitively closed.
C2_AncestorsTransitive ==
  (pc = "done" /\ Acyclic) =>
    \A c \in DOMAIN result : \A b \in result[c] : \A a \in result[b] : a \in result[c]

\* C3 as stated: a router is in the ancestor set of no listener of its paths.
C3_RouterNeverAncestor ==
  pc = "done" =>
    \A r \in flow.routers : \A l \in Listeners :
      PathsOf(r) \cap Trig(l) # {} => r \notin result[l]

\* C3 amended: at every point and in the result, a router r is in the
\* ancestor set of a listener l of one of its paths only if r's step name is
\* a trigger of l or of a listener from which l is reached.
C3_RouterOnlyByName ==
  \A r \in flow.routers : \A l \in Listeners :
    (PathsOf(r) \cap Trig(l) # {} /\ r \in ancestors[l])
      => \E x \in Listeners : r \in Trig(x) /\ (x = l \/ <<x, l>> \in Reach)

\* A finished run where a router with ancestors of its own passed them, and
\* not its name, to a listener of its path.
C3_Witness ==
  /\ pc = "done"
  /\ \E r \in flow.routers : \E l \in Listeners :
       /\ r # l /\ r \notin Trig(l)
       /\ (PathsOf(r) \cap Trig(l)) \ Nodes # {}
       /\ result[r] # {}
       /\ result[r] \subseteq result[l]
       /\ r \notin result[l]

(***************************************************************************)
(* build_parent_children_dict / get_child_index                            *)
(***************************************************************************)
\* str comparison of the (one-letter) names: their alphabetical order.
Alphabet == <<"a", "b", "c", "d", "e", "p">>
NameRank(n) == CHOOSE i \in 1..Len(Alphabet) : Alphabet[i] = n
NameLess(m, n) == NameRank(m) < NameRank(n)

RECURSIVE Insert(_, _)
Insert(sorted, x) ==
  IF sorted = <<>> THEN <<x>>
  ELSE IF NameLess(x, Head(sorted)) THEN <<x>> \o sorted
  ELSE <<Head(sorted)>> \o Insert(Tail(sorted), x)

\* Sort left out: the list as it stands.
Unsorted(s) == s

\* list.sort(): the ascending (stable) rearrangement.
RECURSIVE Sort(_)
Sort(s) == IF s = <<>> THEN <<>> ELSE Insert(Sort(SubSeq(s, 1, Len(s) - 1)), s[Len(s)])

\* list.index(x), zero-based; the list holds x.
Index(s, x) == (CHOOSE i \in 1..Len(s) : s[i] = x /\ \A k \in 1..(i - 1) : s[k] # x) - 1

\* if key not in parent_children: parent_children[key] = []
\* if listener_name not in parent_children[key]: parent_children[key].append(listener_name)
AddChild(pcd, key, listener_name) ==
  LET cur == IF key \in DOMAIN pcd THEN pcd[key] ELSE <<>>
  IN Put(pcd, key, IF listener_name \in SeqSet(cur) THEN cur ELSE Append(cur, listener_name))

\* for trigger in trigger_methods: ... (each trigger has its own key)
RECURSIVE TriggerLoop(_, _, _)
TriggerLoop(pcd, listener_name, todo) ==
  IF todo = {} THEN pcd
  ELSE LET trigger == CHOOSE t \in todo : TRUE
       IN TriggerLoop(AddChild(pcd, trigger, listener_name), listener_name, todo \ {trigger})

\* Lines 196-201: the loop over flow._listeners.
RECURSIVE MapListeners(_, _)
MapListeners(pcd, i) ==
  IF i > Len(flow.order) THEN pcd
  ELSE MapListeners(TriggerLoop(pcd, flow.order[i], Trig(flow.order[i])), i + 1)

\* Lines 207-212, for one router and one path.
RECURSIVE MapPathListeners(_, _, _, _)
MapPathListeners(pcd, router_method_name, path, i) ==
  IF i > Len(flow.order) THEN pcd
  ELSE MapPathListeners(
         IF path \in Trig(flow.order[i])
         THEN AddChild(pcd, router_method_name, flow.order[i]) ELSE pcd,
         router_method_name, path, i + 1)

RECURSIVE MapPaths(_, _, _)
MapPaths(pcd, router_method_name, j) ==
  IF j > Len(flow.router_paths[router_method_name]) THEN pcd
  ELSE MapPaths(MapPathListeners(pcd, router_method_name,
                                 flow.router_paths[router_method_name][j], 1),
                router_method_name, j + 1)

\* Lines 204-212: the loop over flow._router_paths, in the table's order.
RouterOrder == Filter(flow.methods, DOMAIN flow.router_paths)
RECURSIVE MapRouters(_, _)
MapRouters(pcd, k) ==
  IF k > Len(RouterOrder) THEN pcd
  ELSE MapRouters(MapPaths(pcd, RouterOrder[k], 1), k + 1)

\* children = parent_children.get(parent, []); children.sort()
SortChildren(pcd, parent) ==
  IF parent \in DOMAIN pcd THEN [pcd EXCEPT ![parent] = Sort(@)] ELSE pcd
Children(pcd, parent) == IF parent \in DOMAIN pcd THEN pcd[parent] ELSE <<>>

UnusedByPC ==
  /\ levels = Empty /\ queue = <<>> /\ visited = {} /\ pending_and_listeners = Empty
  /\ dequeued = <<>> /\ ancestors = Empty /\ stack = <<>> /\ outer = 0
  /\ code_ast = <<>> /\ dict_definitions = Empty /\ return_values = {}

KeepOthersPC ==
  UNCHANGED <<flow, levels, queue, visited, pending_and_listeners, dequeued,
              ancestors, stack, outer, code_ast, dict_definitions, return_values>>

Perms(S) == {s \in [1..Cardinality(S) -> S] : \A i, j \in DOMAIN s : i # j => s[i] # s[j]}

\* condition_type is not read here; the triggers are the first method's name
\* and the label "p", and the listener table takes every order.
PCTrigNames == {StepNames[1], "p"}
PCListenerChoices ==
  {[cond |-> "NONE", trig |-> {}]}
    \cup {[cond |-> "OR", trig |-> T] :
            T \in {U \in SUBSET PCTrigNames : Cardinality(U) \in 1..MaxTrig}}

InitPC ==
  /\ \E L \in [Steps -> PCListenerChoices], R \in RouterTables :
       \E o \in Perms({m \in Steps : L[m].cond # "NONE"}) :
         flow = [MkFlow({}, L, R, FALSE) EXCEPT !.order = o]
  /\ pc = "listeners"
  /\ parent_children = Empty
  /\ answers = <<>>
  /\ result = None
  /\ UnusedByPC

\* Lines 195-201.
MapListenersToTriggers ==
  /\ pc = "listeners"
  /\ parent_children' = MapListeners(parent_children, 1)
  /\ pc' = "routers"
  /\ UNCHANGED <<answers, result>>
  /\ KeepOthersPC

\* Lines 203-214.
MapRoutersToListeners ==
  /\ pc = "routers"
  /\ parent_children' = MapRouters(parent_children, 1)
  /\ pc' = "built"
  /\ result' = parent_children'
  /\ UNCHANGED answers
  /\ KeepOthersPC

\* The record of one call: its arguments, its outcome, and the map before and
\* after it.
Lookup(parent, child, raised, index, after) ==
  [parent |-> parent, child |-> child, raised |-> raised, index |-> index,
   before |-> parent_children, after |-> after]

\* get_child_index(parent, child, parent_children) returning an index.
GetChildIndex ==
  /\ pc = "built"
  /\ Len(answers) < MaxLookups
  /\ \E parent \in Steps \cup {"p"}, child \in Steps :
       /\ child \in SeqSet(Children(parent_children, parent))
       /\ parent_children' = SortChildren(parent_children, parent)
       /\ result' = Index(Children(parent_children', parent), child)
       /\ answers' = Append(answers, Lookup(parent, child, FALSE, result', parent_children'))
  /\ UNCHANGED pc
  /\ KeepOthersPC

\* get_child_index raising ValueError: child is not in the (sorted) list.
GetChildIndexRaises ==
  /\ pc = "built"
  /\ Len(answers) < MaxLookups
  /\ \E parent \in Steps \cup {"p"}, child \in Steps :
       /\ child \notin SeqSet(Children(parent_children, parent))
       /\ parent_children' = SortChildren(parent_children, parent)
       /\ result' = "ValueError"
       /\ answers' = Append(answers, Lookup(parent, child, TRUE, -1, parent_children'))
  /\ UNCHANGED pc
  /\ KeepOthersPC

NextPC ==
  \/ MapListenersToTriggers \/ MapRoutersToListeners
  \/ GetChildIndex \/ GetChildIndexRaises

SpecPC == InitPC /\ [][NextPC]_vars

(***************************************************************************)
(* Claims about the parent-children map (SpecPC)                           *)
(***************************************************************************)
\* A trigger name that is matched: a step, or a path some router declares.
DeclaredPaths == UNION {SeqSet(flow.router_paths[r]) : r \in DOMAIN flow.router_paths}
Matched(t) == t \in Nodes \/ t \in DeclaredPaths

\* C7: the built map has no key (and so no child list) for a trigger name
\* that is neither a step nor a declared router path.
C7_NoKeyForUnmatchedTrigger ==
  pc = "built" => \A key \in DOMAIN parent_children : Matched(key)

\* C8: every index returned is the zero-based rank of the child among the
\* parent's children in name order; equal lookups return equal indices; and a
\* lookup (returning or raising) leaves the keys, every other parent's list
\* and the elements of the parent's list as they were.
C8_ChildIndex ==
  \A k \in 1..Len(answers) :
    LET a == answers[k]
    IN /\ ~a.raised =>
            a.index = Cardinality({c \in SeqSet(Children(a.before, a.parent)) :
                                     NameLess(c, a.child)})
       /\ \A k2 \in 1..Len(answers) :
            (answers[k2].parent = a.parent /\ answers[k2].child = a.child)
              => answers[k2].index = a.index
       /\ DOMAIN a.after = DOMAIN a.before
       /\ \A q \in DOMAIN a.before : q # a.parent => a.after[q] = a.before[q]
       /\ SeqSet(Children(a.after, a.parent)) = SeqSet(Children(a.before, a.parent))
       /\ Len(Children(a.after, a.parent)) = Len(Children(a.before, a.parent))

\* Children stored as ["b","a","c"]: "a" is looked up twice, the first call
\* sorting the stored list, and is at index 0 both times.
C8_Witness ==
  /\ Len(answers) = 2
  /\ answers[1].parent = answers[2].parent
  /\ answers[1].child = "a" /\ answers[2].child = "a"
  /\ ~answers[1].raised /\ ~answers[2].raised
  /\ answers[1].before[answers[1].parent] = <<"b", "a", "c">>
  /\ answers[2].before[answers[2].parent] = <<"a", "b", "c">>
  /\ answers[2].index = 0

(***************************************************************************)
(* get_possible_return_constants                                           *)
(* code_ast is the sequence of Assign and Return nodes of the parsed       *)
(* source in the order NodeVisitor reaches them.  A node is                *)
(*   [kind, shape, var, vals]:                                             *)
(*   Assign  "name=dict"   var = {..: vals[1], ..}                         *)
(*           "attr=dict"   a target that is no ast.Name                    *)
(*           "multi=dict"  two targets                                     *)
(*           "name=other"  a value that is no ast.Dict                     *)
(*   Return  "str"         return "<vals[1]>"                              *)
(*           "const"       a constant that is no str                       *)
(*           "sub_name"    return var[...]                                 *)
(*           "sub_other"   a subscript of something that is no ast.Name    *)
(*           "other"       any other expression, or none                   *)
(* A value is [str, v]: an ast.Constant holding the str v, or another node.*)
(***************************************************************************)
Vars == {"paths", "m"}
Strs == {"go", "stop"}
Vals == {[str |-> TRUE, v |-> x] : x \in Strs} \cup {[str |-> FALSE, v |-> "1"]}
ValLists == UNION {[1..n -> Vals] : n \in 0..MaxDictVals}

AssignNodes ==
  {[kind |-> "Assign", shape |-> "name=dict", var |-> x, vals |-> vs] :
     x \in Vars, vs \in ValLists}
    \cup {[kind |-> "Assign", shape |-> sh, var |-> "paths",
           vals |-> <<[str |-> TRUE, v |-> "go"]>>] :
            sh \in {"attr=dict", "multi=dict", "name=other"}}
ReturnNodes ==
  {[kind |-> "Return", shape |-> "str", var |-> "", vals |-> <<[str |-> TRUE, v |-> x]>>] :
     x \in Strs}
    \cup {[kind |-> "Return", shape |-> "sub_name", var |-> x, vals |-> <<>>] : x \in Vars}
    \cup {[kind |-> "Return", shape |-> sh, var |-> "paths", vals |-> <<>>] :
            sh \in {"const", "sub_other", "other"}}
AstNodes == AssignNodes \cup ReturnNodes

\* The str values of a dictionary literal, in order.
RECURSIVE StrValues(_)
StrValues(vs) ==
  IF vs = <<>> THEN <<>>
  ELSE IF Head(vs).str THEN <<Head(vs).v>> \o StrValues(Tail(vs))
  ELSE StrValues(Tail(vs))

\* visit_Assign without `if dict_values:`.
VisitAssignKeepEmpty(defs, node) ==
  IF node.shape = "name=dict" THEN Put(defs, node.var, StrValues(node.vals)) ELSE defs

\* DictionaryAssignmentVisitor.visit_Assign
VisitAssign(defs, node) ==
  IF node.shape = "name=dict"
  THEN LET dict_values == StrValues(node.vals)
       IN IF dict_values # <<>> THEN Put(defs, node.var, dict_values) ELSE defs
  ELSE defs

\* ReturnVisitor.visit_Return
VisitReturn(rv, defs, node) ==
  IF node.shape = "str" THEN rv \cup {node.vals[1].v}
  ELSE IF node.shape = "sub_name"
  THEN IF node.var \in DOMAIN defs THEN rv \cup SeqSet(defs[node.var]) ELSE rv
  ELSE rv

\* return list(return_values) if return_values else None
Returned(rv) == [absent |-> rv = {}, values |-> rv]

UnusedByRet ==
  /\ flow = Empty
  /\ levels = Empty /\ queue = <<>> /\ visited = {} /\ pending_and_listeners = Empty
  /\ dequeued = <<>> /\ ancestors = Empty /\ stack = <<>>
  /\ parent_children = Empty /\ answers = Empty

KeepOthersRet ==
  UNCHANGED <<flow, levels, queue, visited, pending_and_listeners, dequeued,
              ancestors, stack, parent_children, answers, code_ast>>

InitRet ==
  /\ \E n \in 0..MaxStmts : code_ast \in [1..n -> AstNodes]
  /\ pc = "source"
  /\ outer = 1
  /\ dict_definitions = Empty
  /\ return_values = {}
  /\ result = None
  /\ UnusedByRet

\* Lines 7-32 when inspect.getsource or ast.parse raises: return None.
SourceFails ==
  /\ pc = "source"
  /\ pc' = "failed"
  /\ result' = Returned({})
  /\ UNCHANGED <<outer, dict_definitions, return_values>>
  /\ KeepOthersRet

\* Lines 7-35 when the source parses.
SourceParses ==
  /\ pc = "source"
  /\ pc' = "assignments"
  /\ UNCHANGED <<outer, dict_definitions, return_values, result>>
  /\ KeepOthersRet

\* First pass, at an Assign node.
FirstPassAssign ==
  /\ pc = "assignments" /\ outer <= Len(code_ast)
  /\ code_ast[outer].kind = "Assign"
  /\ dict_definitions' = VisitAssign(dict_definitions, code_ast[outer])
  /\ outer' = outer + 1
  /\ UNCHANGED <<pc, return_values, result>>
  /\ KeepOthersRet

\* First pass, at any other node: generic_visit.
FirstPassOther ==
  /\ pc = "assignments" /\ outer <= Len(code_ast)
  /\ code_ast[outer].kind # "Assign"
  /\ outer' = outer + 1
  /\ UNCHANGED <<pc, dict_definitions, return_values, result>>
  /\ KeepOthersRet

\* Line 75: the second pass starts.
StartSecondPass ==
  /\ pc = "assignments" /\ outer > Len(code_ast)
  /\ pc' = "returns"
  /\ outer' = 1
  /\ UNCHANGED <<dict_definitions, return_values, result>>
  /\ KeepOthersRet

\* Second pass, at a Return node.
SecondPassReturn ==
  /\ pc = "returns" /\ outer <= Len(code_ast)
  /\ code_ast[outer].kind = "Return"
  /\ return_values' = VisitReturn(return_values, dict_definitions, code_ast[outer])
  /\ outer' = outer + 1
  /\ UNCHANGED <<pc, dict_definitions, result>>
  /\ KeepOthersRet

\* Second pass, at any other node: generic_visit.
SecondPassOther ==
  /\ pc = "returns" /\ outer <= Len(code_ast)
  /\ code_ast[outer].kind # "Return"
  /\ outer' = outer + 1
  /\ UNCHANGED <<pc, dict_definitions, return_values, result>>
  /\ KeepOthersRet

\* Line 77.
ReturnConstants ==
  /\ pc = "returns" /\ outer > Len(code_ast)
  /\ pc' = "done"
  /\ result' = Returned(return_values)
  /\ UNCHANGED <<outer, dict_definitions, return_values>>
  /\ KeepOthersRet

NextRet ==
  \/ SourceFails \/ SourceParses \/ FirstPassAssign \/ FirstPassOther
  \/ StartSecondPass \/ SecondPassReturn \/ SecondPassOther \/ ReturnConstants

SpecRet == InitRet /\ [][NextRet]_vars

(***************************************************************************)
(* Claims about get_possible_return_constants (SpecRet)                    *)
(***************************************************************************)
\* Node i binds a variable to a dictionary literal with a str value.
Records(i) ==
  /\ code_ast[i].kind = "Assign" /\ code_ast[i].shape = "name=dict"
  /\ \E k \in 1..Len(code_ast[i].vals) : code_ast[i].vals[k].str

\* The str values recorded for variable x: those of the last literal bound
\* to it that has any.
RecordedFor(x) ==
  LET at == {i \in 1..Len(code_ast) : Records(i) /\ code_ast[i].var = x}
  IN IF at = {} THEN {}
     ELSE {code_ast[Max(at)].vals[k].v :
             k \in {n \in 1..Len(code_ast[Max(at)].vals) : code_ast[Max(at)].vals[n].str}}

DirectStrings ==
  {code_ast[i].vals[1].v :
     i \in {n \in 1..Len(code_ast) : code_ast[n].kind = "Return" /\ code_ast[n].shape = "str"}}
SubscriptStrings ==
  UNION {RecordedFor(code_ast[i].var) :
           i \in {n \in 1..Len(code_ast) :
                    code_ast[n].kind = "Return" /\ code_ast[n].shape = "sub_name"}}

\* C10: for a source that parses, the result is the union of the literal str
\* returns and of the recorded values of every subscripted recorded variable,
\* and None exactly when that union is empty.
C10_ReturnConstants ==
  pc = "done" =>
    /\ result.absent <=> (DirectStrings \cup SubscriptStrings = {})
    /\ ~result.absent => result.values = DirectStrings \cup SubscriptStrings

\* return paths[...] placed before two literals bound to paths, the second
\* without a str value, next to returns that contribute nothing.
C10_Witness ==
  /\ pc = "done"
  /\ ~result.absent
  /\ \E i, j, k \in 1..Len(code_ast) :
       /\ i < j /\ j < k
       /\ code_ast[i].kind = "Return" /\ code_ast[i].shape = "sub_name"
       /\ Records(j) /\ code_ast[j].var = code_ast[i].var
       /\ Cardinality(RecordedFor(code_ast[i].var)) = 2
       /\ code_ast[k].kind = "Assign" /\ code_ast[k].shape = "name=dict"
       /\ code_ast[k].var = code_ast[i].var /\ ~Records(k)
  /\ Cardinality(result.values) = 2

====
